---- MODULE Spec2Model ----
(***************************************************************************)
(* Walking-tour backend (FastAPI, one asyncio event loop):                 *)
(*   services/routing.py   greedy time-budgeted route builder              *)
(*   agents/director.py    cheapest-insertion replanning                   *)
(*   models/state.py       tour lifecycle, route cursor, session registry  *)
(*   routes/tour.py        request handlers                                *)
(*                                                                         *)
(* Coordinates are points of a small grid measured in meters and the       *)
(* great-circle distance is a metric on them.  Times are counted in units  *)
(* of 1/250 minute, in which distance / (5000/60) is the integer 3 * d.    *)
(***************************************************************************)
EXTENDS Integers, Sequences, FiniteSets, TLC

VARIABLES
    bin,        \* generate_route, rank_candidates_by_insertion: the arguments
    b,          \* generate_route, rank_candidates_by_insertion: the locals
    tours,      \* TourManager.tours: the ids it holds
    tour,       \* the TourState objects, by id (an object outlives its key)
    req,        \* the coroutines of the handlers that await, by slot
    running,    \* the slot whose coroutine holds the event loop, 0: idle
    resp,       \* the response sent last
    nreq,       \* awaiting handlers started so far
    nops,       \* other requests served so far
    nuuid,      \* uuid4 values drawn for stops so far
    lim         \* what the clients and the providers of a run may do

buildVars == <<bin, b>>
sessVars == <<tours, tour, req, running, resp, nreq, nops, nuuid, lim>>
vars == <<bin, b, tours, tour, req, running, resp, nreq, nops, nuuid, lim>>

----------------------------------------------------------------------------
(* Bounds of the model *)

MaxStopsArg == 3        \* max_stops ranges over 0..MaxStopsArg
MaxPlaces == 2          \* the provider returns at most this many places

\* tour_length is any int of the request: negative values are accepted.
Budgets == {-5, 5, 11, 12, 20, 30}
Starts == {<<0, 0>>, <<170, 0>>, <<300, 0>>}
Themes == {"historical", "ghost", "coffee"}

----------------------------------------------------------------------------
(* services/routing.py *)

UnitsPerMinute == 250
Minutes(m) == m * UnitsPerMinute

Abs(x) == IF x < 0 THEN -x ELSE x

haversine_distance(coord1, coord2) ==
    Abs(coord1[1] - coord2[1]) + Abs(coord1[2] - coord2[2])

estimate_walking_time(distance_meters) ==
    (distance_meters * 60 * UnitsPerMinute) \div 5000

\* The test against ten times the threshold.
check_poi_proximity_wide(current_location, poi_coords, threshold_meters) ==
    haversine_distance(current_location, poi_coords) <= threshold_meters * 10

check_poi_proximity(current_location, poi_coords, threshold_meters) ==
    haversine_distance(current_location, poi_coords) <= threshold_meters

\* data/pois.json as load_pois() returns it.  The second entry has no
\* "estimated_duration" key.
load_pois ==
    << [id |-> "p1", coordinates |-> <<40, 0>>, themes |-> <<"historical">>,
        estimated_duration |-> 15, facts |-> 2, interactive_questions |-> 1],
       [id |-> "p2", coordinates |-> <<300, 0>>, themes |-> <<"art", "historical">>,
        facts |-> 1, interactive_questions |-> 0],
       [id |-> "p3", coordinates |-> <<300, 400>>, themes |-> <<"ghost", "historical">>,
        estimated_duration |-> 10, facts |-> 0, interactive_questions |-> 2],
       [id |-> "p4", coordinates |-> <<0, 0>>, themes |-> <<"art">>,
        estimated_duration |-> 10, facts |-> 3, interactive_questions |-> 0] >>

\* What KnowledgeService.search_places can return: places of the provider,
\* the third with no rating (None).
ProviderPlaces ==
    { [place_id |-> "g1", coordinates |-> <<40, 0>>, rating |-> 45, types |-> <<"cafe">>],
      [place_id |-> "g2", coordinates |-> <<300, 0>>, rating |-> 30, types |-> <<>>],
      [place_id |-> "g3", coordinates |-> <<300, 400>>, types |-> <<"museum">>],
      [place_id |-> "g4", coordinates |-> <<0, 400>>, rating |-> 15, types |-> <<"bar">>] }

RECURSIVE ListsOver(_, _)
ListsOver(S, n) ==
    IF n = 0 THEN {<<>>}
    ELSE LET shorter == ListsOver(S, n - 1)
         IN  shorter \cup
             {Append(l, x) : l \in {m \in shorter : Len(m) = n - 1},
                             x \in S}

PlaceLists == ListsOver(ProviderPlaces, MaxPlaces)

Contains(s, x) == \E i \in 1..Len(s) : s[i] = x

filter_pois_by_theme(pois, theme) ==
    LET matches(poi) == Contains(poi.themes, theme)
    IN  SelectSeq(pois, matches)

\* score_poi in tenths: 1.0, +1.0 for the primary theme, +0.1 a fact,
\* +0.2 an interactive question.
score_poi(poi, theme) ==
    10
    + (IF Len(poi.themes) > 0 /\ poi.themes[1] = theme THEN 10 ELSE 0)
    + poi.facts
    + poi.interactive_questions * 2

\* list.sort(key=score, reverse=True): stable, equal scores keep their order.
RECURSIVE InsertByScore(_, _, _)
InsertByScore(sorted, poi, theme) ==
    IF sorted = <<>> THEN <<poi>>
    ELSE IF score_poi(Head(sorted), theme) >= score_poi(poi, theme)
         THEN <<Head(sorted)>> \o InsertByScore(Tail(sorted), poi, theme)
         ELSE <<poi>> \o sorted

RECURSIVE SortByScore(_, _)
SortByScore(pois, theme) ==
    IF pois = <<>> THEN <<>>
    ELSE InsertByScore(SortByScore(SubSeq(pois, 1, Len(pois) - 1), theme),
                       pois[Len(pois)], theme)

\* A slice that cuts nothing.
PrefixWhole(s, n) == s

Prefix(s, n) == SubSeq(s, 1, IF n < Len(s) THEN (IF n < 0 THEN 0 ELSE n) ELSE Len(s))

\* A provider result is dropped when its rating is known (truthy) and
\* below 3.5.
DynamicKeepsAboveTwo(p) ==
    ~("rating" \in DOMAIN p /\ p.rating # 0 /\ p.rating < 20)

DynamicKeeps(p) ==
    ~("rating" \in DOMAIN p /\ p.rating # 0 /\ p.rating < 35)

DynamicCandidate(p, theme) ==
    [id |-> p.place_id, coordinates |-> p.coordinates, themes |-> <<theme>>,
     estimated_duration |-> 15, facts |-> 0, interactive_questions |-> 0]

RECURSIVE MapCandidates(_, _)
MapCandidates(places, theme) ==
    IF places = <<>> THEN <<>>
    ELSE <<DynamicCandidate(Head(places), theme)>>
         \o MapCandidates(Tail(places), theme)

StaticCandidates(theme, max_stops) ==
    LET all_pois == load_pois
        themed == filter_pois_by_theme(all_pois, theme)
        themed_pois == IF themed = <<>> THEN all_pois ELSE themed
    IN  Prefix(SortByScore(themed_pois, theme), max_stops * 3)

\* The candidate pool: `places` is what search_places returned.
SourceNoFallback(theme, max_stops, use_dynamic_search, places) ==
    IF use_dynamic_search
    THEN MapCandidates(SelectSeq(places, DynamicKeeps), theme)
    ELSE StaticCandidates(theme, max_stops)

SourceCandidates(theme, max_stops, use_dynamic_search, places) ==
    LET dynamic == IF use_dynamic_search
                   THEN MapCandidates(SelectSeq(places, DynamicKeeps), theme)
                   ELSE <<>>
    IN  IF dynamic # <<>> THEN dynamic ELSE StaticCandidates(theme, max_stops)

StopDuration(poi) ==
    IF "estimated_duration" \in DOMAIN poi THEN poi.estimated_duration ELSE 8

POIStopOf(poi) ==
    [id |-> poi.id, coordinates |-> poi.coordinates,
     estimated_time |-> StopDuration(poi), themes |-> poi.themes]

RECURSIVE ScanNearestLast(_, _, _, _, _, _)
ScanNearestLast(candidates, used_ids, current_pos, i, best_poi, best_distance) ==
    IF i > Len(candidates) THEN best_poi
    ELSE IF candidates[i].id \in used_ids
         THEN ScanNearestLast(candidates, used_ids, current_pos, i + 1,
                              best_poi, best_distance)
         ELSE LET distance == haversine_distance(current_pos,
                                                 candidates[i].coordinates)
              IN  IF best_poi = 0 \/ distance <= best_distance
                  THEN ScanNearestLast(candidates, used_ids, current_pos, i + 1,
                                       i, distance)
                  ELSE ScanNearestLast(candidates, used_ids, current_pos, i + 1,
                                       best_poi, best_distance)

\* The scan for the nearest unvisited POI: best_poi is None (0) until a
\* candidate is seen, and only a strictly smaller distance replaces it.
RECURSIVE ScanNearest(_, _, _, _, _, _)
ScanNearest(candidates, used_ids, current_pos, i, best_poi, best_distance) ==
    IF i > Len(candidates) THEN best_poi
    ELSE IF candidates[i].id \in used_ids
         THEN ScanNearest(candidates, used_ids, current_pos, i + 1,
                          best_poi, best_distance)
         ELSE LET distance == haversine_distance(current_pos,
                                                 candidates[i].coordinates)
              IN  IF best_poi = 0 \/ distance < best_distance
                  THEN ScanNearest(candidates, used_ids, current_pos, i + 1,
                                   i, distance)
                  ELSE ScanNearest(candidates, used_ids, current_pos, i + 1,
                                   best_poi, best_distance)

\* list.remove(x): the first element equal to x goes.
RECURSIVE RemoveFirst(_, _)
RemoveFirst(s, x) ==
    IF s = <<>> THEN <<>>
    ELSE IF Head(s) = x THEN Tail(s)
         ELSE <<Head(s)>> \o RemoveFirst(Tail(s), x)

LoopGuardNoCap(st, max_stops) ==
    /\ st.candidates # <<>>
    /\ st.remaining_time > Minutes(10)

LoopGuard(st, max_stops) ==
    /\ st.candidates # <<>>
    /\ Len(st.route_stops) < max_stops
    /\ st.remaining_time > Minutes(10)

FeasibleUnchecked(travel_time, stop_duration, remaining_time) == TRUE

FeasibleWithMargin(travel_time, stop_duration, remaining_time) ==
    ~(travel_time + Minutes(stop_duration) + Minutes(10) > remaining_time)

Feasible(travel_time, stop_duration, remaining_time) ==
    ~(travel_time + Minutes(stop_duration) > remaining_time)

\* The loop with `break` where the code removes the candidate and goes on.
LoopBodyGivesUp(st) ==
    LET best == ScanNearest(st.candidates, st.used_ids, st.current_pos, 1, 0, 0)
    IN  IF best = 0 THEN [st EXCEPT !.pc = "break"]
        ELSE
        LET best_poi == st.candidates[best]
            best_distance == haversine_distance(st.current_pos, best_poi.coordinates)
            travel_time == estimate_walking_time(best_distance)
            stop_duration == StopDuration(best_poi)
        IN  IF travel_time + Minutes(stop_duration) > st.remaining_time
            THEN [st EXCEPT !.pc = "break"]
            ELSE [st EXCEPT
                    !.route_stops = Append(st.route_stops, POIStopOf(best_poi)),
                    !.used_ids = st.used_ids \cup {best_poi.id},
                    !.current_pos = best_poi.coordinates,
                    !.remaining_time = st.remaining_time
                                       - (travel_time + Minutes(stop_duration)),
                    !.candidates = RemoveFirst(st.candidates, best_poi)]

LoopBodySkips(st) ==
    LET best == ScanNearest(st.candidates, st.used_ids, st.current_pos, 1, 0, 0)
        pass == [st EXCEPT !.iterations = st.iterations + 1]
    IN  IF best = 0 THEN [pass EXCEPT !.pc = "break"]
        ELSE
        LET best_poi == st.candidates[best]
            best_distance == haversine_distance(st.current_pos, best_poi.coordinates)
            travel_time == estimate_walking_time(best_distance)
            stop_duration == StopDuration(best_poi)
        IN  IF ~Feasible(travel_time, stop_duration, st.remaining_time)
            THEN pass
            ELSE [pass EXCEPT
                    !.route_stops = Append(st.route_stops, POIStopOf(best_poi)),
                    !.used_ids = st.used_ids \cup {best_poi.id},
                    !.current_pos = best_poi.coordinates,
                    !.remaining_time = st.remaining_time
                                       - (travel_time + Minutes(stop_duration)),
                    !.candidates = RemoveFirst(st.candidates, best_poi)]

LoopBodyMarksVisited(st) ==
    LET best == ScanNearest(st.candidates, st.used_ids, st.current_pos, 1, 0, 0)
        pass == [st EXCEPT !.iterations = st.iterations + 1]
    IN  IF best = 0 THEN [pass EXCEPT !.pc = "break"]
        ELSE
        LET best_poi == st.candidates[best]
            best_distance == haversine_distance(st.current_pos, best_poi.coordinates)
            travel_time == estimate_walking_time(best_distance)
            stop_duration == StopDuration(best_poi)
        IN  IF ~Feasible(travel_time, stop_duration, st.remaining_time)
            THEN [pass EXCEPT !.candidates = RemoveFirst(st.candidates, best_poi),
                              !.used_ids = st.used_ids \cup {best_poi.id}]
            ELSE [pass EXCEPT
                    !.route_stops = Append(st.route_stops, POIStopOf(best_poi)),
                    !.used_ids = st.used_ids \cup {best_poi.id},
                    !.current_pos = best_poi.coordinates,
                    !.remaining_time = st.remaining_time
                                       - (travel_time + Minutes(stop_duration)),
                    !.candidates = RemoveFirst(st.candidates, best_poi)]

\* One pass of the while loop (the guard holds).  iterations counts the
\* passes begun; the code keeps no such counter.
LoopBody(st) ==
    LET best == ScanNearest(st.candidates, st.used_ids, st.current_pos, 1, 0, 0)
        pass == [st EXCEPT !.iterations = st.iterations + 1]
    IN  IF best = 0 THEN [pass EXCEPT !.pc = "break"]
        ELSE
        LET best_poi == st.candidates[best]
            best_distance == haversine_distance(st.current_pos, best_poi.coordinates)
            travel_time == estimate_walking_time(best_distance)
            stop_duration == StopDuration(best_poi)
        IN  IF ~Feasible(travel_time, stop_duration, st.remaining_time)
            THEN [pass EXCEPT !.candidates = RemoveFirst(st.candidates, best_poi)]
            ELSE [pass EXCEPT
                    !.route_stops = Append(st.route_stops, POIStopOf(best_poi)),
                    !.used_ids = st.used_ids \cup {best_poi.id},
                    !.current_pos = best_poi.coordinates,
                    !.remaining_time = st.remaining_time
                                       - (travel_time + Minutes(stop_duration)),
                    !.candidates = RemoveFirst(st.candidates, best_poi)]

LoopStart(start_coords, time_budget_minutes, candidates) ==
    [candidates |-> candidates, route_stops |-> <<>>,
     current_pos |-> start_coords,
     remaining_time |-> Minutes(time_budget_minutes),
     used_ids |-> {}, iterations |-> 0, pc |-> "loop"]

RECURSIVE RunLoop(_, _)
RunLoop(st, max_stops) ==
    IF st.pc = "loop" /\ LoopGuard(st, max_stops)
    THEN RunLoop(LoopBody(st), max_stops)
    ELSE st

\* Route(stops=route_stops): the cursor takes its default.
RouteOf(stops) == [stops |-> stops, current_stop_index |-> 0]

generate_route(start_coords, theme, time_budget_minutes, max_stops, use_dynamic_search, places) ==
    RouteOf(RunLoop(LoopStart(start_coords, time_budget_minutes,
                              SourceCandidates(theme, max_stops,
                                               use_dynamic_search, places)),
                    max_stops).route_stops)

----------------------------------------------------------------------------
(* generate_route, one loop pass at a time *)

BuildInit ==
    /\ bin \in [start_coords : Starts, theme : Themes,
                time_budget_minutes : Budgets, max_stops : 0..MaxStopsArg,
                use_dynamic_search : BOOLEAN, places : PlaceLists]
    /\ (~bin.use_dynamic_search => bin.places = <<>>)
    /\ b = [pc |-> "source"]

BuildSource ==
    /\ b.pc = "source"
    /\ b' = LoopStart(bin.start_coords, bin.time_budget_minutes,
                      SourceCandidates(bin.theme, bin.max_stops,
                                       bin.use_dynamic_search, bin.places))
    /\ UNCHANGED <<bin, sessVars>>

BuildPass ==
    /\ b.pc = "loop"
    /\ LoopGuard(b, bin.max_stops)
    /\ b' = LoopBody(b)
    /\ UNCHANGED <<bin, sessVars>>

BuildReturn ==
    /\ \/ b.pc = "loop" /\ ~LoopGuard(b, bin.max_stops)
       \/ b.pc = "break"
    /\ b' = [pc |-> "returned", route |-> RouteOf(b.route_stops),
             candidates |-> b.candidates, remaining_time |-> b.remaining_time,
             current_pos |-> b.current_pos]
    /\ UNCHANGED <<bin, sessVars>>

BuildNext == BuildSource \/ BuildPass \/ BuildReturn

----------------------------------------------------------------------------
(* models/state.py *)

Statuses == {"initial", "traveling", "poi", "complete"}

\* The table with initial -> complete added.
valid_transitions_shortcut(status) ==
    CASE status = "initial" -> {"traveling", "complete"}
      [] status = "traveling" -> {"poi", "complete"}
      [] status = "poi" -> {"traveling", "complete"}
      [] status = "complete" -> {}
      [] OTHER -> {}

\* The table with complete -> traveling added.
valid_transitions_reopen(status) ==
    CASE status = "initial" -> {"traveling"}
      [] status = "traveling" -> {"poi", "complete"}
      [] status = "poi" -> {"traveling", "complete"}
      [] status = "complete" -> {"traveling"}
      [] OTHER -> {}

valid_transitions(status) ==
    CASE status = "initial" -> {"traveling"}
      [] status = "traveling" -> {"poi", "complete"}
      [] status = "poi" -> {"traveling", "complete"}
      [] status = "complete" -> {}
      [] OTHER -> {}

\* TourState.transition_to: the status afterwards, and whether ValueError
\* is raised.
transition_to_writes_first(status, new_status) ==
    IF new_status \in valid_transitions(status)
    THEN [status |-> new_status, raised |-> FALSE]
    ELSE [status |-> new_status, raised |-> TRUE]

transition_to(status, new_status) ==
    IF new_status \in valid_transitions(status)
    THEN [status |-> new_status, raised |-> FALSE]
    ELSE [status |-> status, raised |-> TRUE]

HasCurrentStop(route) ==
    0 <= route.current_stop_index /\ route.current_stop_index < Len(route.stops)

current_stop(route) == route.stops[route.current_stop_index + 1]

HasNextStopAtCursor(route) == route.current_stop_index < Len(route.stops)

HasNextStop(route) == route.current_stop_index + 1 < Len(route.stops)

\* advance that never moves.
advance_stays(route) == [route |-> route, ret |-> FALSE]

\* advance without the test of the index.
advance_unguarded(route) ==
    [route |-> [route EXCEPT !.current_stop_index = @ + 1], ret |-> TRUE]

\* advance with the test one off: index < len(stops).
advance_past_last(route) ==
    IF route.current_stop_index < Len(route.stops)
    THEN [route |-> [route EXCEPT !.current_stop_index = @ + 1], ret |-> TRUE]
    ELSE [route |-> route, ret |-> FALSE]

\* Route.advance: the route afterwards and the value returned.
advance(route) ==
    IF route.current_stop_index < Len(route.stops) - 1
    THEN [route |-> [route EXCEPT !.current_stop_index = @ + 1], ret |-> TRUE]
    ELSE [route |-> route, ret |-> FALSE]

NoNarration == [current_stop_id |-> "", script_text |-> ""]

\* TourState(preferences=...), as create_tour leaves it.
TourState(tour_length, theme) ==
    [preferences |-> [tour_length |-> tour_length, theme |-> theme],
     route |-> RouteOf(<<>>),
     status |-> "initial",
     current_location |-> <<0, 0>>,
     conversation_history |-> <<>>,
     narration_progress |-> NoNarration]

----------------------------------------------------------------------------
(* agents/director.py *)

\* extract_replan_request: what the text of the provider parses to.  A
\* text that is no JSON gives the default intent; one that is JSON gives
\* what json.loads returns, an object (a dict) or another value (a list).
DefaultIntentAdds(message) ==
    [action |-> "find_place", query |-> message, auto_add |-> TRUE,
     reason |-> "parsed from message"]

DefaultIntent(message) ==
    [action |-> "find_place", query |-> message, reason |-> "parsed from message"]

extract_replan_request(raw, message) ==
    CASE raw.kind = "malformed" -> [isdict |-> TRUE, dict |-> DefaultIntent(message)]
      [] raw.kind = "object" -> [isdict |-> TRUE, dict |-> raw.json]
      [] OTHER -> [isdict |-> FALSE]

\* intent.get(key, default)
IntentGet(intent, key, default) ==
    IF key \in DOMAIN intent THEN intent[key] ELSE default

\* find_nearby_places: the places rated 2.0 or more when there are any,
\* else all the places.
RatedHigh(p) == "rating" \in DOMAIN p /\ p.rating # 0 /\ p.rating >= 20

find_nearby_places(places) ==
    LET high_quality == SelectSeq(places, RatedHigh)
    IN  IF high_quality # <<>> THEN high_quality ELSE places

\* The added cost of the place at insertion index i (0-based, as in the
\* code: stops[i-1] there is stops[i] here).
AddedCost(stops, current_location, place_coords, i) ==
    LET prev_coords == IF i = 0 THEN current_location ELSE stops[i].coordinates
        dist_prev_place == haversine_distance(prev_coords, place_coords)
    IN  IF i < Len(stops)
        THEN LET next_coords == stops[i + 1].coordinates
             IN  dist_prev_place
                 + haversine_distance(place_coords, next_coords)
                 - haversine_distance(prev_coords, next_coords)
        ELSE dist_prev_place

RECURSIVE ScanInsertionLast(_, _, _, _, _, _)
ScanInsertionLast(stops, current_location, place_coords, i, best_idx, min_added_cost) ==
    IF i > Len(stops) THEN [best_idx |-> best_idx, cost |-> min_added_cost]
    ELSE LET added_cost == AddedCost(stops, current_location, place_coords, i)
         IN  IF best_idx = -1 \/ added_cost <= min_added_cost
             THEN ScanInsertionLast(stops, current_location, place_coords, i + 1,
                                    i, added_cost)
             ELSE ScanInsertionLast(stops, current_location, place_coords, i + 1,
                                    best_idx, min_added_cost)

\* for i in range(start_idx, len(stops) + 1): best_idx is -1 until an index
\* is seen, and only a strictly smaller cost replaces it.
RECURSIVE ScanInsertion(_, _, _, _, _, _)
ScanInsertion(stops, current_location, place_coords, i, best_idx, min_added_cost) ==
    IF i > Len(stops) THEN [best_idx |-> best_idx, cost |-> min_added_cost]
    ELSE LET added_cost == AddedCost(stops, current_location, place_coords, i)
         IN  IF best_idx = -1 \/ added_cost < min_added_cost
             THEN ScanInsertion(stops, current_location, place_coords, i + 1,
                                i, added_cost)
             ELSE ScanInsertion(stops, current_location, place_coords, i + 1,
                                best_idx, min_added_cost)

\* results.sort(key=cost): stable.
RECURSIVE InsertByCost(_, _)
InsertByCost(sorted, entry) ==
    IF sorted = <<>> THEN <<entry>>
    ELSE IF Head(sorted).cost <= entry.cost
         THEN <<Head(sorted)>> \o InsertByCost(Tail(sorted), entry)
         ELSE <<entry>> \o sorted

SortKept(results) == results

RECURSIVE SortByCost(_)
SortByCost(results) ==
    IF results = <<>> THEN <<>>
    ELSE InsertByCost(SortByCost(SubSeq(results, 1, Len(results) - 1)),
                      results[Len(results)])

RECURSIVE RankEachFromZero(_, _)
RankEachFromZero(t, candidates) ==
    IF candidates = <<>> THEN <<>>
    ELSE LET place == Head(candidates)
             best == ScanInsertion(t.route.stops, t.current_location,
                                   place.coordinates, 0, -1, 0)
         IN  <<[place |-> place, best_idx |-> best.best_idx, cost |-> best.cost]>>
             \o RankEachFromZero(t, Tail(candidates))

RECURSIVE RankEachKeepsAll(_, _)
RankEachKeepsAll(t, candidates) ==
    IF candidates = <<>> THEN <<>>
    ELSE LET place == Head(candidates)
             best == ScanInsertion(t.route.stops, t.current_location,
                                   place.coordinates,
                                   t.route.current_stop_index + 1, -1, 0)
         IN  <<[place |-> place, best_idx |-> best.best_idx, cost |-> best.cost]>>
             \o RankEachKeepsAll(t, Tail(candidates))

RECURSIVE RankEach(_, _)
RankEach(t, candidates) ==
    IF candidates = <<>> THEN <<>>
    ELSE LET place == Head(candidates)
             start_idx == t.route.current_stop_index + 1
             best == ScanInsertion(t.route.stops, t.current_location,
                                   place.coordinates, start_idx, -1, 0)
             rest == RankEach(t, Tail(candidates))
         IN  IF best.best_idx # -1
             THEN <<[place |-> place, best_idx |-> best.best_idx,
                     cost |-> best.cost]>> \o rest
             ELSE rest

rank_candidates_by_insertion(t, candidates) == SortByCost(RankEach(t, candidates))

\* insert one position early.
ListInsertBefore(s, i, x) ==
    LET k == IF i - 1 < Len(s) THEN i - 1 ELSE Len(s)
    IN  SubSeq(s, 1, k) \o <<x>> \o SubSeq(s, k + 1, Len(s))

\* list.insert(i, x), 0 <= i
ListInsert(s, i, x) ==
    LET k == IF i < Len(s) THEN i ELSE Len(s)
    IN  SubSeq(s, 1, k) \o <<x>> \o SubSeq(s, k + 1, Len(s))

\* uuid4: a value not drawn before.
UuidNames == <<"u1", "u2", "u3", "u4", "u5", "u6">>
uuid4(n) == UuidNames[n + 1]

DetourStop(best_place, id) ==
    [id |-> id, coordinates |-> best_place.coordinates,
     estimated_time |-> 15, themes |-> <<"detour">>]

\* The route replaced by the segment, the cursor back at 0.
ReplaceWhole(route, segment) ==
    [route EXCEPT !.stops = segment, !.current_stop_index = 0]

\* The slice one short: the current stop is replaced too.
ReplaceFromCursor(route, segment) ==
    [route EXCEPT !.stops =
        SubSeq(route.stops, 1,
               IF route.current_stop_index < Len(route.stops)
               THEN route.current_stop_index ELSE Len(route.stops))
        \o segment]

\* tour.route.stops[:current_stop_index + 1] + new_route_segment.stops
ReplaceAfterCursor(route, segment) ==
    [route EXCEPT !.stops =
        SubSeq(route.stops, 1,
               IF route.current_stop_index + 1 < Len(route.stops)
               THEN route.current_stop_index + 1 ELSE Len(route.stops))
        \o segment]

Max(x, y) == IF x < y THEN y ELSE x

RemainingTime(tour_length, elapsed_minutes) == Max(20, tour_length - elapsed_minutes)

\* A result that starts as a success.
ResultPresumed(action) ==
    [success |-> TRUE, action |-> action, message |-> "", new_stops |-> <<>>,
     skipped |-> FALSE, route_updated |-> FALSE, shown |-> <<>>]

NoResult(action) ==
    [success |-> FALSE, action |-> action, message |-> "", new_stops |-> <<>>,
     skipped |-> FALSE, route_updated |-> FALSE, shown |-> <<>>]

RECURSIVE IdsOf(_)
IdsOf(stops) ==
    IF stops = <<>> THEN <<>> ELSE <<Head(stops).id>> \o IdsOf(Tail(stops))

RECURSIVE PlaceIdsOf(_)
PlaceIdsOf(ranked) ==
    IF ranked = <<>> THEN <<>>
    ELSE <<Head(ranked).place.place_id>> \o PlaceIdsOf(Tail(ranked))

----------------------------------------------------------------------------
(* routes/tour.py: the handlers.  All are coroutines of one event loop: a *)
(* handler runs until it awaits the text provider or returns.             *)

MaxInFlight == 2        \* coroutines that may be awaiting at once

Slots == 1..MaxInFlight
Ids == 1..lim.tours
Lengths == {5, 60}
CreateThemes == {"historical", "coffee"}
Locations == {<<0, 0>>, <<300, 0>>}
Elapsed == {0, 45}
StatusArgs == Statuses \cup {"paused"}
Utterance == "hi"

NoIntent == [action |-> "", auto_add |-> FALSE, query |-> ""]

Idle ==
    [pc |-> "free", kind |-> "", sid |-> 0, intent |-> NoIntent,
     ranked |-> <<>>, result |-> NoResult(""), wrote |-> {}]

\* What the provider's text parses to in extract_replan_request.
RawIntents ==
    {[kind |-> "malformed"], [kind |-> "list"]}
    \cup {[kind |-> "object",
           json |-> [action |-> "find_place", auto_add |-> a, query |-> q]] :
          a \in BOOLEAN, q \in {"", "coffee"}}
    \cup {[kind |-> "object",
           json |-> [action |-> "change_theme", auto_add |-> TRUE, query |-> q]] :
          q \in {"coffee", "ghost"}}
    \cup {[kind |-> "object",
           json |-> [action |-> a, auto_add |-> FALSE, query |-> ""]] :
          a \in {"skip_stop", "end_tour", "dance"}}

\* A loop that every pc yields.
YieldsEverywhere(pc) == FALSE

\* A suspension between the ranking and the insertion.
YieldsBeforeCommit(pc) == pc \in {"regenerate", "search"}

\* A suspension before the insertion only.
YieldsAtCommit(pc) == pc \in {"regenerate", "search", "reply"}

\* The pcs at which a coroutine goes on without awaiting: from the return
\* of extract_replan_request to the return of chat there is no suspension
\* (search_places and generate_route are synchronous calls).
HoldsLoop(pc) == pc \in {"regenerate", "search", "commit", "reply"}

CanRun(r) == running = 0 \/ running = r

Keep(r, pc) == IF HoldsLoop(pc) THEN r ELSE 0

FirstFree(r) ==
    /\ req[r].pc = "free"
    /\ \A q \in Slots : q < r => req[q].pc # "free"

KnownEver(s) == s \in DOMAIN tour

Known(s) == s \in tours

\* One more request that no coroutine outlives is served.
Served == nops < lim.ops /\ nops' = nops + 1

NotFound(kind, s) == [kind |-> kind, sid |-> s, code |-> 404]

\* POST /tour/create
CreateTour(tour_length, theme, start_coords, places) ==
    /\ running = 0
    /\ Len(tour) < lim.tours
    /\ LET sid == Len(tour) + 1
           use_dynamic == theme \notin {"historical", "art", "ghost"}
           route == generate_route(start_coords, theme, tour_length, 8,
                                   use_dynamic,
                                   IF use_dynamic THEN places ELSE <<>>)
           t == [TourState(tour_length, theme) EXCEPT
                    !.current_location = start_coords, !.route = route]
       IN  /\ (~use_dynamic => places = <<>>)
           /\ tour' = Append(tour, t)
           /\ tours' = tours \cup {sid}
           /\ resp' = [kind |-> "create", sid |-> sid, code |-> 200,
                       status |-> t.status]
    /\ UNCHANGED <<req, running, nreq, nops, nuuid, lim>>

\* DELETE /tour/{tour_id}
DeleteTour(s) ==
    /\ running = 0
    /\ Served
    /\ IF Known(s)
       THEN /\ tours' = tours \ {s}
            /\ resp' = [kind |-> "delete", sid |-> s, code |-> 200]
       ELSE /\ tours' = tours
            /\ resp' = NotFound("delete", s)
    /\ UNCHANGED <<tour, req, running, nreq, nuuid, lim>>

\* POST /tour/{tour_id}/location
UpdateLocation(s, coords) ==
    /\ running = 0
    /\ Served
    /\ IF ~Known(s)
       THEN /\ resp' = NotFound("location", s)
            /\ UNCHANGED tour
       ELSE LET t == [tour[s] EXCEPT !.current_location = coords]
                near == /\ HasCurrentStop(t.route)
                        /\ check_poi_proximity(coords,
                                               current_stop(t.route).coordinates, 50)
            IN  /\ tour' = [tour EXCEPT ![s] = t]
                /\ resp' = [kind |-> "location", sid |-> s, code |-> 200,
                            current_location |-> coords,
                            near_poi |-> near,
                            should_transition |-> near /\ t.status = "traveling",
                            directions |-> HasCurrentStop(t.route) /\ ~near]
    /\ UNCHANGED <<tours, req, running, nreq, nuuid, lim>>

\* POST /tour/{tour_id}/transition.  TourStatus(new_status) raises
\* ValueError for a string that names no status; the detail of the 400
\* is the text of the ValueError, which names both statuses.
TransitionState(s, new_status) ==
    /\ running = 0
    /\ Served
    /\ IF ~Known(s)
       THEN /\ resp' = NotFound("transition", s)
            /\ UNCHANGED tour
       ELSE LET done == IF new_status \in Statuses
                        THEN transition_to(tour[s].status, new_status)
                        ELSE [status |-> tour[s].status, raised |-> TRUE]
                t == [tour[s] EXCEPT !.status = done.status]
            IN  /\ tour' = [tour EXCEPT ![s] = t]
                /\ resp' = IF done.raised
                           THEN [kind |-> "transition", sid |-> s, code |-> 400,
                                 detail |-> <<tour[s].status, new_status>>]
                           ELSE [kind |-> "transition", sid |-> s, code |-> 200,
                                 previous_status |-> t.status,
                                 new_status |-> new_status]
    /\ UNCHANGED <<tours, req, running, nreq, nuuid, lim>>

\* POST /tour/{tour_id}/advance
AdvanceStop(s) ==
    /\ running = 0
    /\ Served
    /\ IF ~Known(s)
       THEN /\ resp' = NotFound("advance", s)
            /\ UNCHANGED tour
       ELSE LET moved == advance(tour[s].route)
            IN  /\ tour' = [tour EXCEPT ![s].route = moved.route]
                /\ resp' = IF moved.ret
                           THEN [kind |-> "advance", sid |-> s, code |-> 200,
                                 success |-> TRUE,
                                 current_stop_index |-> moved.route.current_stop_index,
                                 is_last_stop |-> ~HasNextStop(moved.route)]
                           ELSE [kind |-> "advance", sid |-> s, code |-> 200,
                                 success |-> FALSE, is_complete |-> TRUE]
    /\ UNCHANGED <<tours, req, running, nreq, nuuid, lim>>

\* POST /tour/{tour_id}/chat, to the first await: the user's message is
\* appended and classify_intent awaits the text provider.
ChatStart(s, r) ==
    /\ running = 0
    /\ IF ~Known(s)
       THEN /\ Served
            /\ resp' = NotFound("chat", s)
            /\ UNCHANGED <<tour, req, nreq>>
       ELSE /\ nreq < lim.reqs
            /\ FirstFree(r)
            /\ tour' = [tour EXCEPT ![s].conversation_history = Append(@, "user")]
            /\ req' = [req EXCEPT ![r] =
                         [Idle EXCEPT !.pc = "await_classify", !.kind = "chat",
                                      !.sid = s,
                                      !.wrote = {"conversation_history"}]]
            /\ nreq' = nreq + 1
            /\ UNCHANGED <<resp, nops>>
    /\ UNCHANGED <<tours, running, nuuid, lim>>

\* classify_intent returned: replan_route awaits extract_replan_request,
\* or answer_question awaits the answer.
ChatClassified(r, intent) ==
    /\ CanRun(r)
    /\ req[r].pc = "await_classify"
    /\ LET pc == IF intent = "REPLAN" THEN "await_extract" ELSE "await_answer"
       IN  /\ req' = [req EXCEPT ![r].pc = pc]
           /\ running' = Keep(r, pc)
    /\ UNCHANGED <<tours, tour, resp, nreq, nops, nuuid, lim>>

\* answer_question returned: the answer is appended and sent.
ChatAnswered(r) ==
    /\ CanRun(r)
    /\ req[r].pc = "await_answer"
    /\ LET s == req[r].sid
           history == Append(tour[s].conversation_history, "assistant")
       IN  /\ tour' = [tour EXCEPT ![s].conversation_history = history]
           /\ resp' = [kind |-> "chat", sid |-> s, code |-> 200,
                       intent |-> "chat", history_length |-> Len(history)]
    /\ req' = [req EXCEPT ![r] = Idle]
    /\ running' = 0
    /\ UNCHANGED <<tours, nreq, nops, nuuid, lim>>

\* replan_route, from the return of extract_replan_request to the branch
\* on the action.  A JSON text that is no object has no .get: the handler
\* ends with the exception.
ChatExtracted(r, raw) ==
    /\ CanRun(r)
    /\ req[r].pc = "await_extract"
    /\ LET s == req[r].sid
           intent == extract_replan_request(raw, Utterance)
       IN  IF ~intent.isdict
           THEN /\ req' = [req EXCEPT ![r] = Idle]
                /\ running' = 0
                /\ resp' = [kind |-> "chat", sid |-> s, code |-> 500]
           ELSE LET action == IntentGet(intent.dict, "action", "find_place")
                    auto_add == IntentGet(intent.dict, "auto_add", FALSE)
                    query == IntentGet(intent.dict, "query", Utterance)
                    result == NoResult(action)
                    pc == CASE action = "change_theme" -> "regenerate"
                            [] action = "find_place" /\ query # "" -> "search"
                            [] OTHER -> "reply"
                    done ==
                        CASE action = "change_theme" -> result
                          [] action = "find_place" /\ query # "" -> result
                          [] action = "skip_stop" ->
                               [result EXCEPT !.success = TRUE, !.skipped = TRUE,
                                              !.message = "skip"]
                          [] action = "end_tour" ->
                               [result EXCEPT !.success = TRUE, !.message = "end"]
                          [] OTHER -> [result EXCEPT !.message = "unsure"]
                IN  /\ req' = [req EXCEPT ![r].pc = pc,
                                          ![r].intent = [action |-> action,
                                                         auto_add |-> auto_add,
                                                         query |-> query],
                                          ![r].result = done]
                    /\ running' = Keep(r, pc)
                    /\ UNCHANGED resp
    /\ UNCHANGED <<tours, tour, nreq, nops, nuuid, lim>>

\* change_theme: generate_route (max_stops=5, dynamic) with what the
\* provider returns, then the stops after the cursor are replaced.
ChatRegenerate(r, places, elapsed_minutes) ==
    /\ CanRun(r)
    /\ req[r].pc = "regenerate"
    /\ LET s == req[r].sid
           t == tour[s]
           remaining_time == RemainingTime(t.preferences.tour_length, elapsed_minutes)
           segment == generate_route(t.current_location, req[r].intent.query,
                                     remaining_time, 5, TRUE, places).stops
       IN  IF segment # <<>>
           THEN /\ tour' = [tour EXCEPT ![s].route = ReplaceAfterCursor(@, segment)]
                /\ req' = [req EXCEPT
                             ![r].pc = "reply",
                             ![r].wrote = @ \cup {"route"},
                             ![r].result = [@ EXCEPT !.success = TRUE,
                                                     !.route_updated = TRUE,
                                                     !.new_stops = IdsOf(segment),
                                                     !.message = "rerouted"]]
           ELSE /\ req' = [req EXCEPT ![r].pc = "reply",
                                      ![r].result = [@ EXCEPT !.message = "empty"]]
                /\ UNCHANGED tour
    /\ running' = Keep(r, "reply")
    /\ UNCHANGED <<tours, resp, nreq, nops, nuuid, lim>>

\* find_place: search_places returns, the places are ranked against the
\* route as it is now.
ChatSearch(r, found) ==
    /\ CanRun(r)
    /\ req[r].pc = "search"
    /\ LET s == req[r].sid
           places == find_nearby_places(found)
           ranked_candidates == rank_candidates_by_insertion(tour[s], places)
           pc == IF places # <<>> /\ ranked_candidates # <<>> /\ req[r].intent.auto_add
                 THEN "commit" ELSE "reply"
           result ==
               IF places = <<>>
               THEN [req[r].result EXCEPT !.message = "notfound"]
               ELSE IF ranked_candidates = <<>>
               THEN [req[r].result EXCEPT !.message = "nofit"]
               ELSE IF req[r].intent.auto_add
               THEN req[r].result
               ELSE [req[r].result EXCEPT
                        !.success = TRUE, !.message = "browse",
                        !.shown = PlaceIdsOf(Prefix(ranked_candidates, 3))]
       IN  /\ req' = [req EXCEPT ![r].pc = pc,
                                 ![r].ranked = IF pc = "commit"
                                               THEN ranked_candidates ELSE <<>>,
                                 ![r].result = result]
           /\ running' = Keep(r, pc)
    /\ UNCHANGED <<tours, tour, resp, nreq, nops, nuuid, lim>>

\* Commit mode: the cheapest candidate becomes a stop at its index.
ChatCommit(r) ==
    /\ CanRun(r)
    /\ req[r].pc = "commit"
    /\ nuuid < Len(UuidNames)
    /\ LET s == req[r].sid
           best == req[r].ranked[1]
           new_stop == DetourStop(best.place, uuid4(nuuid))
       IN  /\ tour' = [tour EXCEPT ![s].route.stops =
                                       ListInsert(@, best.best_idx, new_stop)]
           /\ req' = [req EXCEPT
                        ![r].pc = "reply",
                        ![r].ranked = <<>>,
                        ![r].wrote = @ \cup {"route"},
                        ![r].result = [@ EXCEPT !.success = TRUE,
                                                !.new_stops = <<best.place.place_id>>,
                                                !.route_updated = TRUE,
                                                !.message = "added"]]
    /\ nuuid' = nuuid + 1
    /\ running' = Keep(r, "reply")
    /\ UNCHANGED <<tours, resp, nreq, nops, lim>>

\* chat after replan_route returned: a skip advances the route, the
\* answer is appended and sent.
ChatReply(r) ==
    /\ CanRun(r)
    /\ req[r].pc = "reply"
    /\ LET s == req[r].sid
           route == IF req[r].result.skipped
                    THEN advance(tour[s].route).route ELSE tour[s].route
           history == Append(tour[s].conversation_history, "assistant")
       IN  /\ tour' = [tour EXCEPT ![s].route = route,
                                   ![s].conversation_history = history]
           /\ resp' = [kind |-> "chat", sid |-> s, code |-> 200,
                       intent |-> "replan", replan_result |-> req[r].result,
                       history_length |-> Len(history)]
    /\ req' = [req EXCEPT ![r] = Idle]
    /\ running' = 0
    /\ UNCHANGED <<tours, nreq, nops, nuuid, lim>>

\* POST /tour/{tour_id}/narrate, to the await of the narrator (or to the
\* response, when the narration is cached or there is no current stop).
\* welcome: whether the cached text holds "Welcome".
NarrateStart(s, r, welcome) ==
    /\ running = 0
    /\ IF ~Known(s)
       THEN /\ Served
            /\ resp' = NotFound("narrate", s)
            /\ UNCHANGED <<req, nreq>>
       ELSE LET t == tour[s]
                np == t.narration_progress
                cached ==
                    CASE t.status = "initial" -> np.script_text # "" /\ welcome
                      [] t.status = "complete" ->
                           np.script_text # "" /\ np.current_stop_id = "farewell"
                      [] OTHER ->
                           /\ HasCurrentStop(t.route)
                           /\ np.current_stop_id = current_stop(t.route).id
                           /\ np.script_text # ""
                missing == /\ t.status \notin {"initial", "complete"}
                           /\ ~HasCurrentStop(t.route)
            IN  IF missing \/ cached
                THEN /\ Served
                     /\ resp' = [kind |-> "narrate", sid |-> s,
                                 code |-> IF missing THEN 400 ELSE 200,
                                 cached |-> cached]
                     /\ UNCHANGED <<req, nreq>>
                ELSE /\ nreq < lim.reqs
                     /\ FirstFree(r)
                     /\ req' = [req EXCEPT ![r] =
                                  [Idle EXCEPT
                                     !.pc = CASE t.status = "initial" -> "await_intro"
                                              [] t.status = "complete" -> "await_outro"
                                              [] OTHER -> "await_poi",
                                     !.kind = "narrate", !.sid = s]]
                     /\ nreq' = nreq + 1
                     /\ UNCHANGED <<resp, nops>>
    /\ UNCHANGED <<tours, tour, running, nuuid, lim>>

\* The narrator returned: the script is recorded and sent.
NarrateDone(r) ==
    /\ CanRun(r)
    /\ req[r].pc \in {"await_intro", "await_outro", "await_poi"}
    /\ LET s == req[r].sid
           id == CASE req[r].pc = "await_intro" -> "INTRO"
                   [] req[r].pc = "await_outro" -> "farewell"
                   [] OTHER -> current_stop(tour[s].route).id
       IN  /\ tour' = [tour EXCEPT
                         ![s].conversation_history = Append(@, "assistant"),
                         ![s].narration_progress =
                             [current_stop_id |-> id, script_text |-> "text"]]
           /\ resp' = [kind |-> "narrate", sid |-> s, code |-> 200,
                       cached |-> FALSE]
    /\ req' = [req EXCEPT ![r] = Idle]
    /\ running' = 0
    /\ UNCHANGED <<tours, nreq, nops, nuuid, lim>>

----------------------------------------------------------------------------
(* The specifications *)

MaxOps == 3             \* requests served without a coroutine, in Spec

\* A run of Spec: one session, one handler awaiting at a time.
Limits ==
    [tours |-> 1, reqs |-> 1, ops |-> MaxOps, lengths |-> Lengths,
     themes |-> CreateThemes, places |-> PlaceLists]

\* A run of SpecTwo: one session of the curated route, two handlers
\* awaiting at a time.
LimitsTwo ==
    [tours |-> 1, reqs |-> 2, ops |-> 1, lengths |-> {60},
     themes |-> {"historical"},
     places |-> {l \in PlaceLists : Len(l) <= 1}]

NoResponse == [kind |-> "none", sid |-> 0, code |-> 0]

SessInit(limits) ==
    /\ tours = {}
    /\ tour = <<>>
    /\ req = [r \in Slots |-> Idle]
    /\ running = 0
    /\ resp = NoResponse
    /\ nreq = 0
    /\ nops = 0
    /\ nuuid = 0
    /\ lim = limits

BuildIdle ==
    /\ bin = [theme |-> ""]
    /\ b = [pc |-> "idle"]

Create ==
    /\ \E l \in lim.lengths, th \in lim.themes, pl \in lim.places :
          CreateTour(l, th, <<0, 0>>, pl)
    /\ UNCHANGED buildVars

Delete ==
    /\ \E s \in Ids : DeleteTour(s)
    /\ UNCHANGED buildVars

Location ==
    /\ \E s \in Ids, c \in Locations : UpdateLocation(s, c)
    /\ UNCHANGED buildVars

Transition ==
    /\ \E s \in Ids, st \in StatusArgs : TransitionState(s, st)
    /\ UNCHANGED buildVars

Advance ==
    /\ \E s \in Ids : AdvanceStop(s)
    /\ UNCHANGED buildVars

Chat ==
    /\ \E s \in Ids, r \in Slots : ChatStart(s, r)
    /\ UNCHANGED buildVars

Classified ==
    /\ \E r \in Slots, i \in {"REPLAN", "CHAT"} : ChatClassified(r, i)
    /\ UNCHANGED buildVars

Answered ==
    /\ \E r \in Slots : ChatAnswered(r)
    /\ UNCHANGED buildVars

Extracted ==
    /\ \E r \in Slots, raw \in RawIntents : ChatExtracted(r, raw)
    /\ UNCHANGED buildVars

Regenerate ==
    /\ \E r \in Slots, pl \in lim.places, e \in Elapsed : ChatRegenerate(r, pl, e)
    /\ UNCHANGED buildVars

Search ==
    /\ \E r \in Slots, pl \in lim.places : ChatSearch(r, pl)
    /\ UNCHANGED buildVars

Commit ==
    /\ \E r \in Slots : ChatCommit(r)
    /\ UNCHANGED buildVars

Reply ==
    /\ \E r \in Slots : ChatReply(r)
    /\ UNCHANGED buildVars

Narrate ==
    /\ \E s \in Ids, r \in Slots, w \in BOOLEAN : NarrateStart(s, r, w)
    /\ UNCHANGED buildVars

Narrated ==
    /\ \E r \in Slots : NarrateDone(r)
    /\ UNCHANGED buildVars

Next ==
    \/ Create \/ Delete \/ Location \/ Transition \/ Advance
    \/ Chat \/ Classified \/ Answered \/ Extracted
    \/ Regenerate \/ Search \/ Commit \/ Reply
    \/ Narrate \/ Narrated

Init == BuildIdle /\ SessInit(Limits)

Spec == Init /\ [][Next]_vars

InitTwo == BuildIdle /\ SessInit(LimitsTwo)

SpecTwo == InitTwo /\ [][Next]_vars

\* A run of SpecPair: two sessions of the curated route, one handler
\* awaiting at a time.
LimitsPair ==
    [tours |-> 2, reqs |-> 1, ops |-> 1, lengths |-> {60},
     themes |-> {"historical"},
     places |-> {l \in PlaceLists : Len(l) <= 1}]

InitPair == BuildIdle /\ SessInit(LimitsPair)

SpecPair == InitPair /\ [][Next]_vars

\* A run of SpecRegistry: two sessions of the curated route and MaxOps
\* requests, enough to create both, delete one and ask for it again.
LimitsRegistry ==
    [tours |-> 2, reqs |-> 1, ops |-> MaxOps, lengths |-> {60},
     themes |-> {"historical"},
     places |-> {l \in PlaceLists : Len(l) <= 1}]

InitRegistry == BuildIdle /\ SessInit(LimitsRegistry)

SpecRegistry == InitRegistry /\ [][Next]_vars

\* What a place search around a busy corner can return: the provider's
\* rated places and two more with good ratings.
NearbyPlaces ==
    {p \in ProviderPlaces : "rating" \in DOMAIN p} \cup
    { [place_id |-> "g5", coordinates |-> <<300, 200>>, rating |-> 40, types |-> <<"cafe">>],
      [place_id |-> "g6", coordinates |-> <<150, 0>>, rating |-> 25, types |-> <<"bakery">>] }

MaxFound == 4           \* a search of SpecDetour returns at most this many places

NoRepeat(l) == \A i, j \in 1..Len(l) : i # j => l[i] # l[j]

FoundLists == {l \in ListsOver(NearbyPlaces, MaxFound) : NoRepeat(l)}

\* A run of SpecDetour: one session, one handler awaiting at a time, the
\* searches returning up to MaxFound different places.
LimitsDetour ==
    [tours |-> 1, reqs |-> 1, ops |-> 1, lengths |-> {5, 60},
     themes |-> {"historical"}, places |-> FoundLists]

InitDetour == BuildIdle /\ SessInit(LimitsDetour)

SpecDetour == InitDetour /\ [][Next]_vars

\* A search that returns six places a few meters apart, all kept by the
\* dynamic sourcing.
CrowdedPlaces ==
    << [place_id |-> "c1", coordinates |-> <<0, 10>>, rating |-> 45, types |-> <<"cafe">>],
       [place_id |-> "c2", coordinates |-> <<10, 10>>, rating |-> 40, types |-> <<"cafe">>],
       [place_id |-> "c3", coordinates |-> <<20, 10>>, types |-> <<>>],
       [place_id |-> "c4", coordinates |-> <<30, 10>>, rating |-> 35, types |-> <<"cafe">>],
       [place_id |-> "c5", coordinates |-> <<40, 10>>, rating |-> 50, types |-> <<"cafe">>],
       [place_id |-> "c6", coordinates |-> <<50, 10>>, rating |-> 48, types |-> <<"cafe">>] >>

\* A run of SpecTheme: one session of two hours, one handler awaiting at a
\* time, the searches returning nothing, two or six places.
LimitsTheme ==
    [tours |-> 1, reqs |-> 1, ops |-> 1, lengths |-> {120},
     themes |-> {"historical"},
     places |-> {<<>>, Prefix(CrowdedPlaces, 2), CrowdedPlaces}]

InitTheme == BuildIdle /\ SessInit(LimitsTheme)

SpecTheme == InitTheme /\ [][Next]_vars

SessIdle == SessInit([tours |-> 0, reqs |-> 0, ops |-> 0, lengths |-> {},
                      themes |-> {}, places |-> {}])

InitBuild == BuildInit /\ SessIdle

SpecBuild == InitBuild /\ [][BuildNext]_vars

\* generate_route is a synchronous call: a pass that may begin does begin,
\* and a loop that has ended returns.
SpecBuildFair == SpecBuild /\ WF_vars(BuildPass) /\ WF_vars(BuildReturn)

\* rank_candidates_by_insertion on its own: the route is any list of up to
\* MaxRankStops stops of the catalogue (a stop may repeat), the cursor is
\* in range, the candidates are what the provider can return.
MaxRankStops == 3

RankStops == {POIStopOf(load_pois[j]) : j \in 1..Len(load_pois)}

RankRoutes == ListsOver(RankStops, MaxRankStops)

RankInit ==
    /\ bin \in [stops : RankRoutes, current_stop_index : 0..(MaxRankStops - 1),
                current_location : Locations, candidates : PlaceLists]
    /\ (bin.current_stop_index < Len(bin.stops) \/ bin.current_stop_index = 0)
    /\ b = [pc |-> "rank"]

RankTour ==
    [route |-> [stops |-> bin.stops,
                current_stop_index |-> bin.current_stop_index],
     current_location |-> bin.current_location]

RankCall ==
    /\ b.pc = "rank"
    /\ b' = [pc |-> "ranked",
             results |-> rank_candidates_by_insertion(RankTour, bin.candidates)]
    /\ UNCHANGED <<bin, sessVars>>

InitRank == RankInit /\ SessIdle

SpecRank == InitRank /\ [][RankCall]_vars

----------------------------------------------------------------------------
(* The route builder's claims, under SpecBuild *)

\* Walking time from the previous position plus the dwell time, summed
\* over the stops, in units of 1/250 minute.
RECURSIVE RouteCost(_, _)
RouteCost(from, stops) ==
    IF stops = <<>> THEN 0
    ELSE estimate_walking_time(haversine_distance(from, Head(stops).coordinates))
         + Minutes(Head(stops).estimated_time)
         + RouteCost(Head(stops).coordinates, Tail(stops))

Pool == SourceCandidates(bin.theme, bin.max_stops, bin.use_dynamic_search,
                         bin.places)

FitsFromStart(c) ==
    estimate_walking_time(haversine_distance(bin.start_coords, c.coordinates))
    + Minutes(StopDuration(c)) <= Minutes(bin.time_budget_minutes)

\* C6, as stated: for every run of the builder, whatever the start, the
\* pool, the budget and max_stops, the walking estimates from the previous
\* position plus the dwell minutes of the returned stops sum to at most
\* the time budget.
C6_WithinAnyBudget ==
    b.pc = "returned" =>
        RouteCost(bin.start_coords, b.route.stops)
            <= Minutes(bin.time_budget_minutes)

\* C6, amended: the sum is at most the time budget when the budget is not
\* negative, and 0 when it is (in every pass of the loop and at the
\* return).
C6_WithinBudget ==
    /\ b.pc \in {"loop", "break"} =>
          RouteCost(bin.start_coords, b.route_stops)
              <= Max(Minutes(bin.time_budget_minutes), 0)
    /\ b.pc = "returned" =>
          RouteCost(bin.start_coords, b.route.stops)
              <= Max(Minutes(bin.time_budget_minutes), 0)

\* A run that returned two stops or more and left candidates behind with
\* room under max_stops: the budget is what ended it.
W6_BudgetEndedRun ==
    /\ b.pc = "returned"
    /\ Len(b.route.stops) >= 2
    /\ Len(b.route.stops) < bin.max_stops
    /\ b.candidates # <<>>

\* C7: for every run of the builder the returned route has at most
\* max_stops stops and its cursor is 0.
C7_AtMostMaxStops ==
    b.pc = "returned" =>
        /\ Len(b.route.stops) <= bin.max_stops
        /\ b.route.current_stop_index = 0

\* A run that max_stops ended: candidates and more than 10 minutes were
\* left.
W7_CapEndedRun ==
    /\ b.pc = "returned"
    /\ bin.max_stops >= 1
    /\ Len(b.route.stops) = bin.max_stops
    /\ b.candidates # <<>>
    /\ b.remaining_time > Minutes(10)

\* C8: with a budget above 10 minutes, max_stops >= 1 and a candidate of
\* the pool that fits the budget from the start, the returned route is
\* not empty.
C8_NonEmptyWhenOneFits ==
    (/\ b.pc = "returned"
     /\ bin.time_budget_minutes > 10
     /\ bin.max_stops >= 1
     /\ \E i \in 1..Len(Pool) : FitsFromStart(Pool[i]))
    => b.route.stops # <<>>

\* Such a run whose nearest candidate did not fit: the first stop is a
\* candidate farther from the start than another of the pool.
W8_NearestDidNotFit ==
    /\ b.pc = "returned"
    /\ bin.time_budget_minutes > 10
    /\ bin.max_stops >= 1
    /\ b.route.stops # <<>>
    /\ \E i \in 1..Len(Pool) :
          /\ ~FitsFromStart(Pool[i])
          /\ haversine_distance(bin.start_coords, Pool[i].coordinates)
               < haversine_distance(bin.start_coords, b.route.stops[1].coordinates)

----------------------------------------------------------------------------
(* The session's claims, under Spec and SpecTwo *)

\* The transitions of the lifecycle table.
LegalPairs ==
    {<<"initial", "traveling">>, <<"traveling", "poi">>,
     <<"traveling", "complete">>, <<"poi", "traveling">>,
     <<"poi", "complete">>}

\* C1: a transition request for a pair (from, to) of statuses outside the
\* lifecycle table, self-transitions included, is answered with the
\* invalid-transition error (400, naming both statuses) and leaves the
\* session's status, route and cursor as they were; so for initial ->
\* complete.
C1_IllegalTransitionRejected ==
    [][\A s \in Ids, st \in Statuses :
         (/\ Known(s)
          /\ <<tour[s].status, st>> \notin LegalPairs
          /\ TransitionState(s, st))
         => /\ resp'.kind = "transition"
            /\ resp'.code = 400
            /\ resp'.detail = <<tour[s].status, st>>
            /\ tour'[s].status = tour[s].status
            /\ tour'[s].route = tour[s].route]_vars

\* initial -> complete was asked and rejected, the status is initial.
W1_InitialToCompleteRejected ==
    /\ resp.kind = "transition"
    /\ resp.code = 400
    /\ resp.detail = <<"initial", "complete">>
    /\ tour[resp.sid].status = "initial"

\* C2: once a session's status is complete, no step of any handler
\* (transition, advance, location, chat and replan, narrate) makes it
\* anything else.
C2_CompleteAbsorbing ==
    [][\A s \in DOMAIN tour :
         tour[s].status = "complete" => tour'[s].status = "complete"]_vars

\* A complete session was asked to go back to traveling, and is complete.
W2_CompleteAskedToLeave ==
    /\ resp.kind = "transition"
    /\ resp.code = 400
    /\ resp.detail = <<"complete", "traveling">>
    /\ tour[resp.sid].status = "complete"

\* C3: in every reachable state the cursor of every session's route is
\* between 0 and the number of stops.
C3_CursorInRange ==
    \A s \in DOMAIN tour :
        /\ 0 <= tour[s].route.current_stop_index
        /\ tour[s].route.current_stop_index <= Len(tour[s].route.stops)

\* A route with an inserted detour whose cursor has moved.
W3_AdvancedWithDetour ==
    \E s \in DOMAIN tour :
        /\ tour[s].route.current_stop_index >= 1
        /\ \E i \in 1..Len(tour[s].route.stops) :
              tour[s].route.stops[i].themes = <<"detour">>

\* C4: no step of any handler makes the cursor of a session's route
\* smaller.
C4_CursorNeverDecreases ==
    [][\A s \in DOMAIN tour :
         tour'[s].route.current_stop_index
             >= tour[s].route.current_stop_index]_vars

\* The stops after a moved cursor were replaced by a theme change.
W4_ReroutedAfterAdvance ==
    /\ resp.kind = "chat"
    /\ resp.code = 200
    /\ resp.intent = "replan"
    /\ resp.replan_result.message = "rerouted"
    /\ tour[resp.sid].route.current_stop_index >= 1

\* C5: advance on a route whose cursor is at the last index, or whose
\* stop list is empty, is answered 200 with success false and
\* is_complete true, and leaves the cursor and the stops as they were.
C5_AdvanceAtEnd ==
    [][\A s \in Ids :
         (/\ Known(s)
          /\ tour[s].route.current_stop_index >= Len(tour[s].route.stops) - 1
          /\ AdvanceStop(s))
         => /\ resp' = [kind |-> "advance", sid |-> s, code |-> 200,
                        success |-> FALSE, is_complete |-> TRUE]
            /\ tour'[s].route = tour[s].route]_vars

\* advance was refused at the last stop of a route that was walked.
W5_RefusedAtLastStop ==
    /\ resp.kind = "advance"
    /\ resp.code = 200
    /\ ~resp.success
    /\ tour[resp.sid].route.current_stop_index >= 1
    /\ tour[resp.sid].route.current_stop_index
         = Len(tour[resp.sid].route.stops) - 1

\* The pcs of replan_route and chat at which the route or the cursor of
\* the session is read and written.
InMutation(r) == req[r].pc \in {"regenerate", "search", "commit", "reply"}

\* C9: under any interleaving of the handlers of one session, at most one
\* handler is between the reading and the writing of the route, the
\* cursor or the status; while it is, it alone runs and no step of
\* another handler changes the session; the index it inserts at is an
\* index of the route as it is.
C9_MutationsSerialized ==
    /\ [](\A r \in Slots :
            InMutation(r) =>
                /\ running = r
                /\ \A q \in Slots \ {r} : ~InMutation(q)
                /\ req[r].pc = "commit" =>
                      /\ req[r].ranked[1].best_idx
                           > tour[req[r].sid].route.current_stop_index
                      /\ req[r].ranked[1].best_idx
                           <= Len(tour[req[r].sid].route.stops))
    /\ [][\A r \in Slots :
            InMutation(r) => (tour' = tour \/ req'[r] # req[r])]_vars

\* Two chat handlers of one session: one about to insert, one awaiting.
W9_CommitWhileOtherAwaits ==
    \E r, q \in Slots :
        /\ r # q
        /\ req[r].sid = req[q].sid
        /\ req[r].pc = "commit"
        /\ req[q].pc \in {"await_classify", "await_extract", "await_answer"}

\* C10: while an external call of a chat or replan operation is pending,
\* the operation has written no field of the session.
C10_NoWriteBeforeReturn ==
    \A r \in Slots :
        (/\ req[r].kind = "chat"
         /\ req[r].pc \in {"await_classify", "await_extract", "await_answer",
                            "regenerate", "search"})
        => req[r].wrote = {}

----------------------------------------------------------------------------
(* The claims on sessions side by side, under SpecPair *)

\* The place search or the route regeneration of a replan is outstanding.
CallOutstanding(r) ==
    req[r].kind = "chat" /\ req[r].pc \in {"search", "regenerate"}

\* C11: while the place search or the route regeneration of a replan of
\* one session is outstanding, a transition, an advance and a location
\* update of another session can be served.
C11_OtherSessionProgresses ==
    \A r \in Slots :
        (CallOutstanding(r) /\ nops < lim.ops) =>
            \A s \in tours \ {req[r].sid} :
                /\ ENABLED TransitionState(s, "traveling")
                /\ ENABLED AdvanceStop(s)
                /\ ENABLED UpdateLocation(s, <<0, 0>>)

----------------------------------------------------------------------------
(* The order of the mutations, under SpecTwo *)

\* Every external call of the operation has returned and the operation
\* has not ended: its mutation is about to be applied or just was.
Completed(r) == req[r].pc \in {"commit", "reply"}

\* C12: within one session the route and cursor mutations of concurrent
\* operations are applied in the order in which their external calls
\* complete: from the completion of an operation's last external call to
\* its end no other operation takes a step (none completes a call, none
\* mutates), and a chat operation changes the route or the cursor only in
\* the step in which its last call returns or after it.
C12_AppliedInCompletionOrder ==
    [][/\ \A r \in Slots :
            Completed(r) =>
                /\ \A q \in Slots \ {r} : req'[q] = req[q]
                /\ tour' # tour => req'[r] # req[r]
       /\ \A r \in Slots :
            (/\ req[r].kind = "chat"
             /\ req'[r] # req[r]
             /\ tour'[req[r].sid].route # tour[req[r].sid].route)
            => req[r].pc \in {"regenerate", "commit", "reply"}]_vars

\* An operation has inserted its stop while another of the same session
\* awaits the extraction of its request.
W12_InsertedWhileOtherAwaits ==
    \E r, q \in Slots :
        /\ r # q
        /\ req[r].sid = req[q].sid
        /\ req[r].pc = "reply"
        /\ "route" \in req[r].wrote
        /\ req[q].pc = "await_extract"

----------------------------------------------------------------------------
(* The insertion planner's claims, under SpecDetour *)

\* C13: commit mode changes the route by one splice: a new stop with dwell
\* 15 and tag "detour", at the coordinates of the lowest-cost candidate, is
\* inserted at that candidate's cheapest index after the cursor; the
\* length grows by one, the earlier stops keep their order and the cursor
\* stays.
C13_CommitIsOneSplice ==
    [][\A r \in Slots :
         ChatCommit(r) =>
            LET s == req[r].sid
                old == tour[s].route
                new == tour'[s].route
                best == req[r].ranked[1]
                k == best.best_idx
                IndexCost(i) == AddedCost(old.stops, tour[s].current_location,
                                          best.place.coordinates, i)
            IN  /\ \A j \in 1..Len(req[r].ranked) : best.cost <= req[r].ranked[j].cost
                /\ k \in (old.current_stop_index + 1)..Len(old.stops)
                /\ best.cost = IndexCost(k)
                /\ \A i \in (old.current_stop_index + 1)..Len(old.stops) :
                      IndexCost(k) <= IndexCost(i)
                /\ Len(new.stops) = Len(old.stops) + 1
                /\ new.stops[k + 1].coordinates = best.place.coordinates
                /\ new.stops[k + 1].estimated_time = 15
                /\ new.stops[k + 1].themes = <<"detour">>
                /\ \A i \in 1..k : new.stops[i] = old.stops[i]
                /\ \A i \in (k + 1)..Len(old.stops) : new.stops[i + 1] = old.stops[i]
                /\ new.current_stop_index = old.current_stop_index]_vars

\* A stop was inserted between two stops of the route, not at its end.
W13_InsertedInside ==
    \E r \in Slots :
        /\ req[r].pc = "reply"
        /\ req[r].result.message = "added"
        /\ \E i \in 1..(Len(tour[req[r].sid].route.stops) - 1) :
              tour[req[r].sid].route.stops[i].themes = <<"detour">>

\* C14: browse mode (find_place without auto_add) leaves the route and
\* the cursor of the session as they are, answers route_updated false, and
\* shows the first 3 candidates of the ranking (all, when there are
\* fewer), in the order of the ranking, which is by cost ascending.
C14_BrowseShowsTopThree ==
    [][\A r \in Slots :
         /\ \A found \in lim.places :
              (/\ ChatSearch(r, found)
               /\ ~req[r].intent.auto_add)
              => LET s == req[r].sid
                     ranking == rank_candidates_by_insertion(
                                    tour[s], find_nearby_places(found))
                     shown == req'[r].result.shown
                 IN  /\ tour' = tour
                     /\ ~req'[r].result.route_updated
                     /\ Len(shown) <= 3
                     /\ Len(shown) = IF Len(ranking) < 3 THEN Len(ranking) ELSE 3
                     /\ \A i \in 1..Len(shown) : shown[i] = ranking[i].place.place_id
                     /\ \A i, j \in 1..Len(ranking) :
                           i < j => ranking[i].cost <= ranking[j].cost
         /\ (ChatReply(r) /\ req[r].result.message = "browse")
            => /\ tour'[req[r].sid].route = tour[req[r].sid].route
               /\ ~resp'.replan_result.route_updated
               /\ resp'.replan_result.shown = req[r].result.shown]_vars

\* Three places were shown and the route is the one that was built.
W14_ThreeShown ==
    /\ resp.kind = "chat"
    /\ resp.code = 200
    /\ resp.intent = "replan"
    /\ resp.replan_result.message = "browse"
    /\ Len(resp.replan_result.shown) = 3
    /\ \A i \in 1..Len(tour[resp.sid].route.stops) :
          tour[resp.sid].route.stops[i].themes # <<"detour">>

----------------------------------------------------------------------------
(* The theme change, under SpecTheme *)

\* C15: a successful theme change keeps the cursor and the stops up to
\* and including the one at the cursor, and replaces the stops after it by
\* the sub-route just built, which has between 1 and 5 stops.
C15_ThemeChangeReplacesTail ==
    [][\A r \in Slots, pl \in lim.places, e \in Elapsed :
         (ChatRegenerate(r, pl, e) /\ req'[r].result.success)
         => LET s == req[r].sid
                old == tour[s].route
                new == tour'[s].route
                kept == IF old.current_stop_index + 1 < Len(old.stops)
                        THEN old.current_stop_index + 1 ELSE Len(old.stops)
                segment == generate_route(
                               tour[s].current_location, req[r].intent.query,
                               RemainingTime(tour[s].preferences.tour_length, e),
                               5, TRUE, pl).stops
            IN  /\ 1 <= Len(segment) /\ Len(segment) <= 5
                /\ new.current_stop_index = old.current_stop_index
                /\ Len(new.stops) = kept + Len(segment)
                /\ \A i \in 1..kept : new.stops[i] = old.stops[i]
                /\ \A i \in 1..Len(segment) : new.stops[kept + i] = segment[i]
                /\ req'[r].result.route_updated]_vars

\* After one stop was walked a theme change put five new stops behind the
\* current one, out of six places found.
W15_FiveAfterCursor ==
    /\ resp.kind = "chat"
    /\ resp.code = 200
    /\ resp.intent = "replan"
    /\ resp.replan_result.message = "rerouted"
    /\ Len(resp.replan_result.new_stops) = 5
    /\ tour[resp.sid].route.current_stop_index = 1
    /\ Len(tour[resp.sid].route.stops) = 7

----------------------------------------------------------------------------
(* Replanning that finds nothing, under Spec *)

\* The answer of a replan that found nothing.
NothingFound(result) ==
    /\ ~result.success
    /\ result.message \in {"notfound", "empty"}
    /\ ~result.route_updated
    /\ result.new_stops = <<>>

\* C16: when the place search of find_place returns no places, or the
\* regeneration of a theme change returns an empty sub-route, replan
\* answers success false, a message and route_updated false, and the
\* route, the cursor and the status of the session are as before, up to
\* the response.
C16_NothingFoundNothingChanged ==
    [][\A r \in Slots :
         /\ ChatSearch(r, <<>>)
            => /\ NothingFound(req'[r].result)
               /\ req'[r].pc = "reply"
               /\ tour' = tour
         /\ \A pl \in lim.places, e \in Elapsed :
              (/\ ChatRegenerate(r, pl, e)
               /\ generate_route(
                      tour[req[r].sid].current_location, req[r].intent.query,
                      RemainingTime(tour[req[r].sid].preferences.tour_length, e),
                      5, TRUE, pl).stops = <<>>)
              => /\ NothingFound(req'[r].result)
                 /\ req'[r].pc = "reply"
                 /\ tour' = tour
         /\ (ChatReply(r) /\ req[r].result.message \in {"notfound", "empty"})
            => /\ resp'.code = 200
               /\ NothingFound(resp'.replan_result)
               /\ tour'[req[r].sid].route = tour[req[r].sid].route
               /\ tour'[req[r].sid].status = tour[req[r].sid].status]_vars

\* A theme change whose sub-route came back empty was answered.
W16_EmptySegmentAnswered ==
    /\ resp.kind = "chat"
    /\ resp.code = 200
    /\ resp.intent = "replan"
    /\ resp.replan_result.action = "change_theme"
    /\ resp.replan_result.message = "empty"
    /\ tour[resp.sid].route.stops # <<>>

----------------------------------------------------------------------------
(* Skipping a stop, under Spec *)

\* replan_route returned for a request whose action is skip_stop.
SkipExtracted(r) ==
    /\ req[r].pc = "await_extract"
    /\ req'[r].pc = "reply"
    /\ req'[r].intent.action = "skip_stop"

\* chat ends a request whose action is skip_stop.
SkipReplied(r) == ChatReply(r) /\ req[r].intent.action = "skip_stop"

\* C17, as stated: in every session state a replan whose intent is
\* skip_stop returns skipped and success without touching the route, and
\* after chat applies advance the cursor is one more than before.
C17_SkipAlwaysAdvances ==
    [][\A r \in Slots :
         /\ SkipExtracted(r)
            => /\ req'[r].result.skipped /\ req'[r].result.success
               /\ tour' = tour
         /\ SkipReplied(r)
            => tour'[req[r].sid].route.current_stop_index
                  = tour[req[r].sid].route.current_stop_index + 1]_vars

\* C17, amended: a replan whose intent is skip_stop returns skipped and
\* success without touching the route; after chat applies advance the
\* cursor is one more than before when it was below the last index, and
\* as before when it was at the last index or the route is empty; the
\* stops are as before.
C17_SkipAdvancesUnlessLast ==
    [][\A r \in Slots :
         /\ SkipExtracted(r)
            => /\ req'[r].result.skipped /\ req'[r].result.success
               /\ ~req'[r].result.route_updated
               /\ tour' = tour
         /\ SkipReplied(r)
            => LET old == tour[req[r].sid].route
                   new == tour'[req[r].sid].route
               IN  /\ resp'.replan_result.skipped /\ resp'.replan_result.success
                   /\ new.stops = old.stops
                   /\ new.current_stop_index =
                         IF old.current_stop_index < Len(old.stops) - 1
                         THEN old.current_stop_index + 1
                         ELSE old.current_stop_index]_vars

\* A skip was answered and the cursor is on the second stop.
W17_SkippedToSecond ==
    /\ resp.kind = "chat"
    /\ resp.code = 200
    /\ resp.intent = "replan"
    /\ resp.replan_result.skipped
    /\ tour[resp.sid].route.current_stop_index = 1
    /\ nops = 0

----------------------------------------------------------------------------
(* The location update, under Spec *)

\* C18: a location update leaves the status, the route and the cursor of
\* the session as they are and records the location; its answer says a
\* transition should occur exactly when the new location is within 50 m of
\* the stop at the cursor and the status is traveling.
C18_LocationOnlyHints ==
    [][\A s \in Ids, c \in Locations :
         (Known(s) /\ UpdateLocation(s, c))
         => LET route == tour[s].route
                within50 ==
                    /\ route.current_stop_index < Len(route.stops)
                    /\ haversine_distance(
                           c, route.stops[route.current_stop_index + 1].coordinates)
                         <= 50
            IN  /\ tour'[s] = [tour[s] EXCEPT !.current_location = c]
                /\ resp'.code = 200
                /\ resp'.current_location = c
                /\ resp'.near_poi <=> within50
                /\ resp'.should_transition
                     <=> (within50 /\ tour[s].status = "traveling")]_vars

\* A traveling session came within 50 m of its current stop and was told
\* so; its status is still traveling.
W18_HintWhileTraveling ==
    /\ resp.kind = "location"
    /\ resp.code = 200
    /\ resp.should_transition
    /\ tour[resp.sid].status = "traveling"

----------------------------------------------------------------------------
(* The lifecycle and the route operations; the rating of the places *)

\* C19: for a session whose status is complete, no step of replan
\* (insertion, theme change), advance or skip changes the route or the
\* cursor.
C19_CompleteFreezesRoute ==
    [][\A s \in DOMAIN tour :
         tour[s].status = "complete" => tour'[s].route = tour[s].route]_vars

\* The rating of the place is known and below 2.0.
RatedLow(p) == "rating" \in DOMAIN p /\ p.rating # 0 /\ p.rating < 20

\* C20: no place that the replanning search hands to the insertion
\* planner has a known rating below 2.0, whatever the provider returned.
C20_NoLowRatedRanked ==
    \A r \in Slots :
        \A i \in 1..Len(req[r].ranked) : ~RatedLow(req[r].ranked[i].place)

----------------------------------------------------------------------------
(* The extraction of the replanning intent *)

\* C21: when the intent text is anything but a well-formed intent object,
\* the extraction falls back to the default intent (find_place with the
\* utterance as the query) and the chat request goes on to the place
\* search; no failure is answered to the caller.
C21_MalformedIntentDefaults ==
    [][\A r \in Slots, raw \in RawIntents :
         (raw.kind # "object" /\ ChatExtracted(r, raw))
         => /\ req'[r].pc = "search"
            /\ req'[r].intent.action = "find_place"
            /\ req'[r].intent.query = Utterance
            /\ resp' = resp]_vars

----------------------------------------------------------------------------
(* The sourcing of the builder's pool, under SpecBuild *)

\* The place has a known rating below 3.5.
RatedBelowCut(p) == "rating" \in DOMAIN p /\ p.rating # 0 /\ p.rating < 35

\* Dynamic sourcing was asked for and left nothing to build from: the
\* provider returned no place, or only places below the rating cut.
NothingUsable ==
    /\ bin.use_dynamic_search
    /\ \A i \in 1..Len(bin.places) : RatedBelowCut(bin.places[i])

\* C22: when dynamic sourcing is asked for and yields no usable candidate
\* (the provider returns nothing, or every place is below the rating cut),
\* the builder goes on without failing and its pool is the one of the
\* static catalogue: the themed catalogue entries by score, at most
\* 3 * max_stops of them.
C22_FallsBackToCatalogue ==
    [][(BuildSource /\ NothingUsable)
       => /\ b'.pc = "loop"
          /\ b'.candidates = StaticCandidates(bin.theme, bin.max_stops)
          /\ \A i \in 1..Len(b'.candidates) :
                 \E j \in 1..Len(load_pois) : b'.candidates[i] = load_pois[j]]_vars

\* Every place the provider returned was below the rating cut, and the
\* route that came back has stops of the catalogue.
W22_BuiltFromCatalogue ==
    /\ b.pc = "returned"
    /\ NothingUsable
    /\ bin.places # <<>>
    /\ b.route.stops # <<>>
    /\ \A i \in 1..Len(b.route.stops) :
           \E j \in 1..Len(load_pois) : b.route.stops[i].id = load_pois[j].id

----------------------------------------------------------------------------
(* The insertion planner's claims, under SpecRank *)

\* C23: the list the insertion planner returns is in non-decreasing order
\* of the recorded added cost, for every route, cursor, location and
\* candidate list.
C23_RankedByCost ==
    b.pc = "ranked"
    => \A i, j \in 1..Len(b.results) :
           i < j => b.results[i].cost <= b.results[j].cost

\* Two candidates were ranked and the one given second came out first,
\* with the strictly smaller cost.
W23_SecondCameFirst ==
    /\ b.pc = "ranked"
    /\ Len(b.results) = 2
    /\ b.results[1].place = bin.candidates[2]
    /\ b.results[1].place # bin.candidates[1]
    /\ b.results[1].cost < b.results[2].cost

\* C24: every insertion index the planner records lies after the cursor
\* and at most at the end of the stop list:
\* current_stop_index < best_idx <= len(stops).
C24_IndexAfterCursor ==
    b.pc = "ranked"
    => \A k \in 1..Len(b.results) :
           /\ bin.current_stop_index < b.results[k].best_idx
           /\ b.results[k].best_idx <= Len(bin.stops)

\* With the cursor past the first stop, one candidate was placed right
\* after the cursor and another at the very end of a longer list.
W24_BothEndsUsed ==
    /\ b.pc = "ranked"
    /\ bin.current_stop_index = 1
    /\ Len(bin.stops) = 3
    /\ \E k, l \in 1..Len(b.results) :
           /\ b.results[k].best_idx = 2
           /\ b.results[l].best_idx = 3

\* The insertion indices the planner may use.
LegalIndices == (bin.current_stop_index + 1)..Len(bin.stops)

\* The added cost of a candidate at insertion index i when the predecessor
\* at the first legal index is the session's current location and at every
\* later index the stop before the index.
CostFromLocation(place_coords, i) ==
    LET prev == IF i = bin.current_stop_index + 1
                THEN bin.current_location
                ELSE bin.stops[i].coordinates
        d == haversine_distance(prev, place_coords)
    IN  IF i < Len(bin.stops)
        THEN d + haversine_distance(place_coords, bin.stops[i + 1].coordinates)
               - haversine_distance(prev, bin.stops[i + 1].coordinates)
        ELSE d

\* C29: at the first legal insertion index the predecessor point is the
\* session's current location (at every later index it is the stop before
\* the index): a candidate whose recorded index is the first legal one has
\* the cost measured from the current location.
C29_FirstIndexFromLocation ==
    b.pc = "ranked"
    => \A k \in 1..Len(b.results) :
           b.results[k].best_idx = bin.current_stop_index + 1
           => b.results[k].cost
                = CostFromLocation(b.results[k].place.coordinates,
                                   b.results[k].best_idx)

\* The added cost of a candidate at insertion index i, measured from the
\* stop before the index.
CostAt(place_coords, i) ==
    LET prev == bin.stops[i].coordinates
        d == haversine_distance(prev, place_coords)
    IN  IF i < Len(bin.stops)
        THEN d + haversine_distance(place_coords, bin.stops[i + 1].coordinates)
               - haversine_distance(prev, bin.stops[i + 1].coordinates)
        ELSE d

\* C30: the recorded cost of a candidate is the minimum of the added cost
\* over the legal insertion indices, and the recorded index is the smallest
\* index at which the added cost is that minimum.
C30_CheapestSmallestIndex ==
    b.pc = "ranked"
    => \A k \in 1..Len(b.results) :
           LET e == b.results[k]
               c == e.place.coordinates
           IN  /\ e.best_idx \in LegalIndices
               /\ e.cost = CostAt(c, e.best_idx)
               /\ \A i \in LegalIndices : e.cost <= CostAt(c, i)
               /\ \A i \in LegalIndices : i < e.best_idx => e.cost < CostAt(c, i)

\* A candidate is cheapest at two indices, neither of them the first legal
\* one, and the smaller of the two was recorded.
W30_TieTakesSmaller ==
    /\ b.pc = "ranked"
    /\ \E k \in 1..Len(b.results) :
           LET e == b.results[k]
               c == e.place.coordinates
           IN  /\ e.best_idx > bin.current_stop_index + 1
               /\ \E i \in LegalIndices : i > e.best_idx /\ CostAt(c, i) = e.cost

----------------------------------------------------------------------------
(* The session registry, under SpecRegistry *)

\* A request that looks session s up in the registry.
LooksUp(s) ==
    \/ DeleteTour(s)
    \/ AdvanceStop(s)
    \/ \E c \in Locations : UpdateLocation(s, c)
    \/ \E st \in StatusArgs : TransitionState(s, st)
    \/ \E r \in Slots : ChatStart(s, r)
    \/ \E r \in Slots, w \in BOOLEAN : NarrateStart(s, r, w)

\* C25: a session is in the registry from its creation until a delete on
\* its id and never afterwards, and while it is there every request on its
\* id finds it; a new session starts in the initial status; a delete on an
\* id that is not in the registry answers not-found and changes no session.
C25_RegistryLifetime ==
    [][\A s \in Ids :
         /\ (s \notin DOMAIN tour /\ s \in DOMAIN tour')
            => /\ s \in tours'
               /\ tour'[s].status = "initial"
               /\ resp'.code = 200
               /\ resp'.sid = s
         /\ (s \in tours /\ s \notin tours') => DeleteTour(s)
         /\ (s \in DOMAIN tour /\ s \notin tours) => s \notin tours'
         /\ (s \in tours /\ LooksUp(s))
            => \/ /\ nops' = nops + 1
                  /\ resp'.sid = s
                  /\ resp'.code # 404
               \/ /\ nreq' = nreq + 1
                  /\ \E r \in Slots : req[r].pc = "free" /\ req'[r].sid = s
         /\ (s \notin tours /\ LooksUp(s))
            => /\ resp'.sid = s
               /\ resp'.code = 404
               /\ tours' = tours
               /\ tour' = tour
               /\ req' = req]_vars

\* The first session was deleted and a later request on its id, not a
\* delete, was answered not-found; the second session is still there.
W25_GoneAfterDelete ==
    /\ 1 \in DOMAIN tour
    /\ 1 \notin tours
    /\ 2 \in tours
    /\ resp.sid = 1
    /\ resp.code = 404
    /\ resp.kind \notin {"delete", "none"}

----------------------------------------------------------------------------
(* The builder's main loop, under SpecBuild and SpecBuildFair *)

\* C26: the main loop of the builder terminates for every pool: each pass
\* either stops the loop or removes exactly one candidate from the pool, so
\* the passes number at most the size of the pool plus one, and a run that
\* has entered the loop returns.
C26_LoopTerminates ==
    /\ [][BuildPass => \/ b'.pc = "break"
                       \/ Len(b'.candidates) = Len(b.candidates) - 1]_vars
    /\ [](b.pc \in {"loop", "break"} => b.iterations <= Len(Pool) + 1)
    /\ (b.pc = "loop" ~> b.pc = "returned")

\* The pool of two or more ran empty in as many passes as it had
\* candidates, some committed and some discarded.
W26_PoolExhausted ==
    /\ b.pc = "loop"
    /\ b.candidates = <<>>
    /\ b.iterations = Len(Pool)
    /\ b.route_stops # <<>>
    /\ Len(b.route_stops) < b.iterations

\* The indices of the pool whose candidate is not visited yet, the distance
\* of each from the current position, and the first of the nearest.
Unvisited == {i \in 1..Len(b.candidates) : b.candidates[i].id \notin b.used_ids}

DistanceTo(i) == haversine_distance(b.current_pos, b.candidates[i].coordinates)

Nearest == {i \in Unvisited : \A j \in Unvisited : DistanceTo(i) <= DistanceTo(j)}

FirstNearest == CHOOSE i \in Nearest : \A j \in Nearest : i <= j

\* The list without its k-th element.
Without(seq, k) == SubSeq(seq, 1, k - 1) \o SubSeq(seq, k + 1, Len(seq))

\* C27: the candidate a pass examines is the unvisited candidate of the
\* pool nearest to the current position, the first in pool order among
\* equally near ones: it is the one the pass takes out of the pool and, if
\* the pass commits, the stop appended and the new position.
C27_ExaminesFirstNearest ==
    [][BuildPass
       => IF Unvisited = {} THEN b'.pc = "break"
          ELSE /\ b'.pc = "loop"
               /\ b'.candidates = Without(b.candidates, FirstNearest)
               /\ b'.route_stops # b.route_stops
                  => /\ b'.route_stops
                          = Append(b.route_stops,
                                   POIStopOf(b.candidates[FirstNearest]))
                     /\ b'.current_pos = b.candidates[FirstNearest].coordinates]_vars

\* Two different candidates of the pool were equally near to the start and
\* no other was nearer; the one earlier in the pool is the first stop.
W27_TieTookEarlier ==
    /\ b.pc = "loop"
    /\ Len(b.route_stops) = 1
    /\ \E i, j \in 1..Len(Pool) :
           /\ i < j
           /\ Pool[i].id # Pool[j].id
           /\ haversine_distance(bin.start_coords, Pool[i].coordinates)
                = haversine_distance(bin.start_coords, Pool[j].coordinates)
           /\ \A k \in 1..Len(Pool) :
                  haversine_distance(bin.start_coords, Pool[i].coordinates)
                    <= haversine_distance(bin.start_coords, Pool[k].coordinates)
           /\ b.route_stops[1].id = Pool[i].id

\* The nearest unvisited candidate does not fit: the walk to it and the
\* dwell at it take more than the remaining budget.
NearestDoesNotFit ==
    /\ Unvisited # {}
    /\ estimate_walking_time(DistanceTo(FirstNearest))
         + Minutes(StopDuration(b.candidates[FirstNearest])) > b.remaining_time

\* C28: when the nearest candidate does not fit, the pass takes it out of
\* the pool and leaves the current position, the remaining budget, the
\* visited set and the stop list as they were; nothing is ever put back
\* into the pool during the run.
C28_DiscardOnlyShrinksPool ==
    /\ [][(BuildPass /\ NearestDoesNotFit)
          => /\ b'.pc = "loop"
             /\ b'.candidates = Without(b.candidates, FirstNearest)
             /\ b'.current_pos = b.current_pos
             /\ b'.remaining_time = b.remaining_time
             /\ b'.used_ids = b.used_ids
             /\ b'.route_stops = b.route_stops]_vars
    /\ [][b.pc \in {"loop", "break"}
          => \/ b'.candidates = b.candidates
             \/ \E k \in 1..Len(b.candidates) :
                   b'.candidates = Without(b.candidates, k)]_vars

\* After a stop was committed a candidate was discarded: the pool lost
\* more candidates than the route gained stops.
W28_DiscardedAfterCommit ==
    /\ b.pc = "loop"
    /\ b.route_stops # <<>>
    /\ b.current_pos = b.route_stops[Len(b.route_stops)].coordinates
    /\ Len(b.candidates) + Len(b.route_stops) < Len(Pool)

----------------------------------------------------------------------------
(* Advance, the empty ranking and the frame of the status *)

\* C31: advance on a route whose cursor is before the last index moves the
\* cursor forward by exactly one, leaves the stops as they were, and the
\* answer says is_last_stop exactly when the new cursor is the last index.
C31_AdvanceMovesByOne ==
    [][\A s \in Ids :
         (/\ s \in tours
          /\ tour[s].route.current_stop_index < Len(tour[s].route.stops) - 1
          /\ AdvanceStop(s))
         => /\ tour'[s].route.stops = tour[s].route.stops
            /\ tour'[s].route.current_stop_index
                 = tour[s].route.current_stop_index + 1
            /\ resp'.code = 200
            /\ resp'.success
            /\ resp'.current_stop_index = tour'[s].route.current_stop_index
            /\ resp'.is_last_stop
                 <=> (tour'[s].route.current_stop_index
                        = Len(tour'[s].route.stops) - 1)]_vars

\* advance moved the cursor of a route of three or more stops to a stop
\* that has a next one.
W31_AdvancedNotLast ==
    /\ resp.kind = "advance"
    /\ resp.code = 200
    /\ resp.success
    /\ ~resp.is_last_stop
    /\ Len(tour[resp.sid].route.stops) >= 3
    /\ tour[resp.sid].route.current_stop_index = resp.current_stop_index

\* No index after the cursor is an index of the stop list or its end.
NoLegalIndex(route) == route.current_stop_index + 1 > Len(route.stops)

\* C32: when the search returned places and no insertion index is legal
\* for any of them (the route of the session is empty), replan answers
\* success false with a message and route_updated false and the session is
\* as before, also when auto_add is true.
C32_NoFitNoMutation ==
    [][\A r \in Slots :
         /\ \A found \in lim.places :
              (/\ ChatSearch(r, found)
               /\ find_nearby_places(found) # <<>>
               /\ NoLegalIndex(tour[req[r].sid].route))
              => /\ req'[r].pc = "reply"
                 /\ ~req'[r].result.success
                 /\ req'[r].result.message = "nofit"
                 /\ ~req'[r].result.route_updated
                 /\ req'[r].result.new_stops = <<>>
                 /\ tour' = tour
         /\ (ChatReply(r) /\ req[r].result.message = "nofit")
            => /\ resp'.code = 200
               /\ ~resp'.replan_result.success
               /\ ~resp'.replan_result.route_updated
               /\ tour'[req[r].sid].route = tour[req[r].sid].route
               /\ tour'[req[r].sid].status = tour[req[r].sid].status]_vars

\* A request to add a place at once found places and none could be
\* placed; the answer is about to be sent.
W32_AutoAddCouldNotFit ==
    \E r \in Slots :
        /\ req[r].pc = "reply"
        /\ req[r].intent.auto_add
        /\ req[r].result.message = "nofit"
        /\ tour[req[r].sid].route.stops = <<>>

----------------------------------------------------------------------------
(* Greedy maximality of the builder, under SpecBuild *)

\* The stops built so far, and their ids.
BuiltStops == IF b.pc = "returned" THEN b.route.stops ELSE b.route_stops

BuiltIds == {BuiltStops[k].id : k \in 1..Len(BuiltStops)}

\* The candidate does not fit from the current position: the walk to it
\* and the dwell at it take more than the remaining budget.
DoesNotFitNow(c) ==
    estimate_walking_time(haversine_distance(b.current_pos, c.coordinates))
    + Minutes(StopDuration(c)) > b.remaining_time

\* The candidate was discarded: it is neither a stop nor in the pool.
WasDiscarded(c) ==
    /\ c.id \notin BuiltIds
    /\ \A j \in 1..Len(b.candidates) : b.candidates[j] # c

\* C33: when the builder returns with fewer than max_stops stops and more
\* than 10 minutes left, no candidate of the original pool that is absent
\* from the route fits from the final position; and at every point of the
\* run a candidate that was discarded as not fitting does not fit from the
\* current position either.
C33_GreedyMaximal ==
    b.pc \in {"loop", "break", "returned"}
    => /\ \A i \in 1..Len(Pool) :
             WasDiscarded(Pool[i]) => DoesNotFitNow(Pool[i])
       /\ (/\ b.pc = "returned"
           /\ Len(b.route.stops) < bin.max_stops
           /\ b.remaining_time > Minutes(10))
          => \A i \in 1..Len(Pool) :
                 Pool[i].id \notin BuiltIds => DoesNotFitNow(Pool[i])

\* The builder returned a stop short of max_stops with more than 10
\* minutes left, having committed a stop and then discarded a candidate.
W33_StoppedEarlyAfterDiscard ==
    /\ b.pc = "returned"
    /\ b.route.stops # <<>>
    /\ Len(b.route.stops) < bin.max_stops
    /\ b.remaining_time > Minutes(10)
    /\ \E i \in 1..Len(Pool) : Pool[i].id \notin BuiltIds

----------------------------------------------------------------------------
(* The ids of the stops of a route *)

\* C34: after any sequence of route constructions, insertions and theme
\* changes, no two stops of the route of a session have the same id.
C34_StopIdsDistinct ==
    \A s \in DOMAIN tour :
        \A i, j \in 1..Len(tour[s].route.stops) :
            i # j => tour[s].route.stops[i].id # tour[s].route.stops[j].id

----------------------------------------------------------------------------
(* The frame of the status and of the route *)

\* C35: the status of a session changes only in a step of the transition
\* request that is accepted: advance, skip, replan (end_tour and
\* change_theme too), the location update, chat and narration leave it as
\* it was; and a transition request, accepted or rejected, leaves the
\* stops and the cursor of the route as they were.
C35_StatusOnlyByTransition ==
    [][\A s \in DOMAIN tour :
         /\ tour'[s].status # tour[s].status
            => /\ \E st \in StatusArgs : TransitionState(s, st)
               /\ resp'.code = 200
         /\ \A st \in StatusArgs :
              TransitionState(s, st) => tour'[s].route = tour[s].route]_vars

\* A request to end the tour was answered with success and the session
\* is still traveling.
W35_EndTourStillTraveling ==
    /\ resp.kind = "chat"
    /\ resp.code = 200
    /\ resp.intent = "replan"
    /\ resp.replan_result.action = "end_tour"
    /\ resp.replan_result.success
    /\ tour[resp.sid].status = "traveling"

----------------------------------------------------------------------------
(* The splice under concurrent requests, under SpecTwo *)

\* C36: under any interleaving of advance, skip and replan requests on one
\* session, the index at which commit mode splices the stop is valid for
\* the route as it is at the moment of the splice: it is after the cursor
\* and at most the length of the stop list, so the stops up to the current
\* one and the cursor stay as they are and the new stop comes after them.
C36_SpliceIndexFresh ==
    [][\A r \in Slots :
         ChatCommit(r)
         => LET s == req[r].sid
                idx == req[r].ranked[1].best_idx
                route == tour[s].route
            IN  /\ route.current_stop_index < idx
                /\ idx <= Len(route.stops)
                /\ tour'[s].route.current_stop_index = route.current_stop_index
                /\ Len(tour'[s].route.stops) = Len(route.stops) + 1
                /\ \A k \in 1..(route.current_stop_index + 1) :
                       tour'[s].route.stops[k] = route.stops[k]
                /\ \A k \in 1..Len(route.stops) :
                       tour'[s].route.stops[idx + 1].id # route.stops[k].id]_vars

\* Two chat requests of one session were in flight together; one skipped
\* the first stop and was answered, and the other is about to insert
\* right after the new current stop.
W36_CommitAfterConcurrentSkip ==
    \E r \in Slots :
        /\ req[r].pc = "commit"
        /\ resp.kind = "chat"
        /\ resp.code = 200
        /\ resp.sid = req[r].sid
        /\ resp.intent = "replan"
        /\ resp.replan_result.skipped
        /\ tour[req[r].sid].conversation_history = <<"user", "user", "assistant">>
        /\ tour[req[r].sid].route.current_stop_index = 1
        /\ req[r].ranked[1].best_idx = 2

----------------------------------------------------------------------------
(* The fallback intent *)

\* What replan_route reads from the fallback intent: only the fallback has
\* the utterance as its query.
FallbackRead == [action |-> "find_place", auto_add |-> FALSE, query |-> Utterance]

\* C37: a replan whose intent came from the fallback for text that is not
\* JSON never changes the route: the intent has no auto_add, so the search
\* ends in browse mode or finds nothing, route_updated is false and the
\* route and the cursor are as before when the answer is sent.
C37_FallbackNeverMutates ==
    [][\A r \in Slots :
         /\ ChatExtracted(r, [kind |-> "malformed"])
            => /\ req'[r].intent = FallbackRead
               /\ req'[r].pc = "search"
               /\ tour' = tour
         /\ \A found \in lim.places :
              (req[r].intent = FallbackRead /\ ChatSearch(r, found))
              => /\ req'[r].pc = "reply"
                 /\ ~req'[r].result.route_updated
                 /\ ~req'[r].result.skipped
                 /\ tour' = tour
         /\ (req[r].intent = FallbackRead /\ ChatReply(r))
            => /\ ~resp'.replan_result.route_updated
               /\ tour'[req[r].sid].route = tour[req[r].sid].route]_vars

\* The fallback intent found places and they are about to be listed.
W37_FallbackBrowsed ==
    \E r \in Slots :
        /\ req[r].pc = "reply"
        /\ req[r].intent = FallbackRead
        /\ req[r].result.message = "browse"
        /\ req[r].result.shown # <<>>

----------------------------------------------------------------------------
(* The answer of a transition *)

\* C38: for an accepted transition the answer's previous_status is the
\* status the session had immediately before the transition, and its
\* new_status is the status the session has afterwards.
C38_PreviousStatusIsBefore ==
    [][\A s \in Ids, st \in StatusArgs :
         (s \in tours /\ TransitionState(s, st) /\ resp'.code = 200)
         => /\ resp'.previous_status = tour[s].status
            /\ resp'.new_status = tour'[s].status]_vars

----------------------------------------------------------------------------
(* The rating cut of dynamic sourcing, under SpecBuild *)

\* The ids of the candidates of a pool.
PoolIds(candidates) == {candidates[k].id : k \in 1..Len(candidates)}

\* C39: dynamic route generation admits into the pool no place of the
\* provider whose rating is known and below 3.5, and admits every place
\* that has no rating (and every place rated 3.5 or more).
C39_RatingCutAtSourcing ==
    [][(BuildSource /\ bin.use_dynamic_search)
       => \A i \in 1..Len(bin.places) :
              LET p == bin.places[i]
              IN  IF "rating" \in DOMAIN p /\ p.rating < 35
                  THEN p.place_id \notin PoolIds(b'.candidates)
                  ELSE p.place_id \in PoolIds(b'.candidates)]_vars

\* The provider returned a place rated 3.0 and a place with no rating;
\* the pool the loop starts from holds the unrated place only.
W39_UnratedKeptLowDropped ==
    /\ b.pc = "loop"
    /\ b.iterations = 0
    /\ bin.use_dynamic_search
    /\ \E i, j \in 1..Len(bin.places) :
           /\ "rating" \in DOMAIN bin.places[i]
           /\ bin.places[i].rating = 30
           /\ "rating" \notin DOMAIN bin.places[j]
           /\ PoolIds(b.candidates) = {bin.places[j].place_id}

====
